---- MODULE Spec2Model ----
(***************************************************************************)
(* Model of the CDC consumer (src/unnamed/part_000): the startup retry     *)
(* loop, CDCMessageProcessor (start, processMessage, processDatabaseChange,*)
(* stop), the SIGTERM/SIGINT handlers and the /health endpoint.            *)
(*                                                                         *)
(* Two specifications share the variables:                                 *)
(*   Spec      the process: startup, message loop, signals, health;        *)
(*   SpecNorm  processDatabaseChange applied to one payload drawn from a   *)
(*             bounded set of parsed JSON values.                          *)
(***************************************************************************)
EXTENDS Integers, Sequences, FiniteSets, TLC

(***************************************************************************)
(* JSON values as JSON.parse returns them, tagged by type.  An object is   *)
(* its sequence of <<key, value>> pairs in insertion order, an array the   *)
(* sequence of its elements.  Undefined is what reading a missing property *)
(* yields; it is never a parsed value.                                     *)
(***************************************************************************)
JNull == [t |-> "null"]
Undefined == [t |-> "undefined"]
JBool(b) == [t |-> "bool", v |-> b]
JNum(n) == [t |-> "num", v |-> n]
JStr(s) == [t |-> "str", v |-> s]
JArr(elems) == [t |-> "arr", v |-> elems]
JObj(pairs) == [t |-> "obj", v |-> pairs]

\* JavaScript truthiness: undefined, null, false, 0 and "" are falsy.
Truthy(x) ==
    CASE x.t = "undefined" -> FALSE
      [] x.t = "null" -> FALSE
      [] x.t = "bool" -> x.v
      [] x.t = "num" -> x.v # 0
      [] x.t = "str" -> x.v # ""
      [] OTHER -> TRUE

\* Reading a property of null or undefined raises a TypeError.
Readable(x) == x.t \notin {"null", "undefined"}

HasKey(x, key) ==
    /\ x.t = "obj"
    /\ \E i \in 1..Len(x.v) : x.v[i][1] = key

\* x.key for a readable x: the property's value, undefined when x has none.
\* (None of the keys read by the consumer is a prototype property of a
\* string, number, boolean or array.)
Get(x, key) ==
    IF HasKey(x, key)
    THEN x.v[CHOOSE i \in 1..Len(x.v) : x.v[i][1] = key][2]
    ELSE Undefined

IsArray(x) == x.t = "arr"

\* a || b
Or(a, b) == IF Truthy(a) THEN a ELSE b

(***************************************************************************)
(* Bounds of the model.                                                    *)
(***************************************************************************)
\* longest data sequence among the payloads of SpecNorm
MaxRows == 2
\* messages the broker delivers in one execution of Spec
MaxMsgs == 2
\* termination signals delivered in one execution of Spec
MaxSignals == 2

VARIABLES
    pc,              \* where startConsumer / start / testKafkaConnection is awaiting
    attempt,         \* startConsumer's loop counter
    isRunning,       \* processor.isRunning
    conn,            \* state of the consumer-group connection
    adminOpen,       \* the probe's admin connection is open
    stopping,        \* signal handlers awaiting consumer.disconnect() in stop()
    signals,         \* termination signals delivered so far
    exited,          \* the process has exited
    exitCode,        \* its exit status
    exitBy,          \* what ended it
    delivered,       \* the messages handed to eachMessage, in order
    log,             \* what processMessage wrote to the logger, in order
    loopCrashed,     \* an error escaped eachMessage into the broker client
    resolved,        \* per partition: the offset the broker client has advanced to
    faulted,         \* per delivered message: its serialisation was made to throw
    lastHealth,      \* the last answer of GET /health
    failedAttempts,  \* history: startup attempts that ended in a catch block
    runInvoked,      \* history: consumer.run was called
    everRunning,     \* history: isRunning has been true
    disconnectCalls, \* history: calls of consumer.disconnect
    delays,          \* history: retry delays started
    probedAttempt,   \* history: the last attempt whose probe returned normally
    payload,         \* SpecNorm: the parsed payload
    outcome,         \* SpecNorm: what processDatabaseChange did with it
    phase,           \* SpecNorm: "input" or "done"
    now,             \* SpecApi: the clock, in units of half a token lifetime
    user_tokens,     \* SpecApi: the rows of table user_tokens
    requests,        \* SpecApi: the HTTP requests received, in order of arrival
    revoked,         \* SpecApi history: tokens logged out and not stored since
    boot             \* SpecBoot: the API server's startup and its database

procVars == <<pc, attempt, isRunning, conn, adminOpen, stopping, signals, exited,
              exitCode, exitBy, delivered, log, loopCrashed, resolved, faulted,
              lastHealth,
              failedAttempts, runInvoked, everRunning, disconnectCalls,
              delays, probedAttempt>>
normVars == <<payload, outcome, phase>>
apiVars == <<now, user_tokens, requests, revoked, boot>>
auxVars == <<normVars, apiVars>>
vars == <<procVars, normVars, apiVars>>

(***************************************************************************)
(* processDatabaseChange.  The statements of its try block run in order on *)
(* s = [rec, raised]: rec is `result`, raised says a statement has thrown, *)
(* after which the remaining statements are skipped.                       *)
(***************************************************************************)
DefaultResult_nullChanges(cdcData) ==
    [changeType |-> JStr("unknown"), database |-> JNull, table |-> JNull,
     primaryKey |-> JNull, changes |-> JNull,
     oldData |-> Undefined, changeTimestamp |-> Undefined, rawData |-> cdcData]

DefaultResult_rawDropped(cdcData) ==
    [changeType |-> JStr("unknown"), database |-> JNull, table |-> JNull,
     primaryKey |-> JNull, changes |-> JObj(<<>>),
     oldData |-> Undefined, changeTimestamp |-> Undefined, rawData |-> JNull]

DefaultResult(cdcData) ==
    [changeType |-> JStr("unknown"), database |-> JNull, table |-> JNull,
     primaryKey |-> JNull, changes |-> JObj(<<>>),
     oldData |-> Undefined, changeTimestamp |-> Undefined, rawData |-> cdcData]

Raise(s) == [s EXCEPT !.raised = TRUE]

\* if (cdcData.type) result.changeType = cdcData.type
ExtractType(s, cdcData) ==
    IF s.raised THEN s
    ELSE IF ~Readable(cdcData) THEN Raise(s)
    ELSE IF Truthy(Get(cdcData, "type"))
         THEN [s EXCEPT !.rec.changeType = Get(cdcData, "type")]
         ELSE s

\* if (cdcData.database) result.database = cdcData.database
ExtractDatabase(s, cdcData) ==
    IF s.raised THEN s
    ELSE IF ~Readable(cdcData) THEN Raise(s)
    ELSE IF Truthy(Get(cdcData, "database"))
         THEN [s EXCEPT !.rec.database = Get(cdcData, "database")]
         ELSE s

\* if (cdcData.table) result.table = cdcData.table
ExtractTable(s, cdcData) ==
    IF s.raised THEN s
    ELSE IF ~Readable(cdcData) THEN Raise(s)
    ELSE IF Truthy(Get(cdcData, "table"))
         THEN [s EXCEPT !.rec.table = Get(cdcData, "table")]
         ELSE s

\* if (firstRow.id !== undefined) result.primaryKey = { id: firstRow.id }
PrimaryKey_truthyId(rec, firstRow) ==
    IF Truthy(Get(firstRow, "id"))
    THEN [rec EXCEPT !.primaryKey = JObj(<< <<"id", Get(firstRow, "id")>> >>)]
    ELSE rec

PrimaryKey(rec, firstRow) ==
    IF Get(firstRow, "id").t # "undefined"
    THEN [rec EXCEPT !.primaryKey = JObj(<< <<"id", Get(firstRow, "id")>> >>)]
    ELSE rec

ExtractRows_changesFirst(s, cdcData) ==
    IF s.raised THEN s
    ELSE IF ~Readable(cdcData) THEN Raise(s)
    ELSE LET data == Get(cdcData, "data") IN
         IF Truthy(data) /\ IsArray(data) /\ Len(data.v) > 0
         THEN LET firstRow == data.v[1]
                  stored == [s EXCEPT !.rec.changes = data]
              IN IF ~Readable(firstRow) THEN Raise(stored)
                 ELSE [stored EXCEPT !.rec = PrimaryKey(stored.rec, firstRow)]
         ELSE s

\* the block guarded by cdcData.data && Array.isArray(cdcData.data) &&
\* cdcData.data.length > 0
ExtractRows(s, cdcData) ==
    IF s.raised THEN s
    ELSE IF ~Readable(cdcData) THEN Raise(s)
    ELSE LET data == Get(cdcData, "data") IN
         IF Truthy(data) /\ IsArray(data) /\ Len(data.v) > 0
         THEN LET firstRow == data.v[1] IN
              IF ~Readable(firstRow) THEN Raise(s)
              ELSE [s EXCEPT !.rec = [PrimaryKey(s.rec, firstRow)
                                          EXCEPT !.changes = data]]
         ELSE s

\* if (cdcData.old_data) result.oldData = cdcData.old_data
ExtractOldData(s, cdcData) ==
    IF s.raised THEN s
    ELSE IF ~Readable(cdcData) THEN Raise(s)
    ELSE IF Truthy(Get(cdcData, "old_data"))
         THEN [s EXCEPT !.rec.oldData = Get(cdcData, "old_data")]
         ELSE s

\* if (cdcData.ts || cdcData.timestamp)
\*   result.changeTimestamp = cdcData.ts || cdcData.timestamp
ExtractTimestamp(s, cdcData) ==
    IF s.raised THEN s
    ELSE IF ~Readable(cdcData) THEN Raise(s)
    ELSE IF Truthy(Or(Get(cdcData, "ts"), Get(cdcData, "timestamp")))
         THEN [s EXCEPT !.rec.changeTimestamp =
                            Or(Get(cdcData, "ts"), Get(cdcData, "timestamp"))]
         ELSE s

\* the try block, lines 124-157
TryExtract(cdcData) ==
    ExtractTimestamp(
      ExtractOldData(
        ExtractRows(
          ExtractTable(
            ExtractDatabase(
              ExtractType([rec |-> DefaultResult(cdcData), raised |-> FALSE],
                          cdcData),
              cdcData),
            cdcData),
          cdcData),
        cdcData),
      cdcData)

\* The call's outcome: raised says an error left the function, value is the
\* returned record, caught says the catch block logged an extraction error.
ProcessDatabaseChange_noCatch(cdcData) ==
    LET s == TryExtract(cdcData) IN
    [raised |-> s.raised, value |-> s.rec, caught |-> FALSE]

ProcessDatabaseChange(cdcData) ==
    LET s == TryExtract(cdcData) IN
    [raised |-> FALSE, value |-> s.rec, caught |-> s.raised]

(***************************************************************************)
(* Messages.  message.value is <<>> when the body is absent (null) and     *)
(* <<text>> when it is a Buffer holding text.                              *)
(***************************************************************************)
Topic == "tidb-cdc-changes"
Partitions == {0, 1}

InsertText ==
    "{\"type\":\"insert\",\"database\":\"sre_test\",\"table\":\"users\",\"data\":[{\"id\":1,\"name\":\"a\"}]}"
NullRowText == "{\"type\":\"update\",\"data\":[null],\"ts\":1700}"

\* the bodies the broker delivers
Bodies == {"", "{oops", "null", "5", "[]", "{}", InsertText, NullRowText}
Values == {<<>>} \cup {<<b>> : b \in Bodies}

\* JSON.parse on the bodies above: ok is FALSE when it throws a SyntaxError.
JSONParse(text) ==
    CASE text = "null" -> [ok |-> TRUE, value |-> JNull]
      [] text = "5" -> [ok |-> TRUE, value |-> JNum(5)]
      [] text = "[]" -> [ok |-> TRUE, value |-> JArr(<<>>)]
      [] text = "{}" -> [ok |-> TRUE, value |-> JObj(<<>>)]
      [] text = InsertText ->
           [ok |-> TRUE,
            value |-> JObj(<< <<"type", JStr("insert")>>,
                              <<"database", JStr("sre_test")>>,
                              <<"table", JStr("users")>>,
                              <<"data", JArr(<<JObj(<< <<"id", JNum(1)>>,
                                                      <<"name", JStr("a")>> >>)>>)>> >>)]
      [] text = NullRowText ->
           [ok |-> TRUE,
            value |-> JObj(<< <<"type", JStr("update")>>,
                              <<"data", JArr(<<JNull>>)>>,
                              <<"ts", JNum(1700)>> >>)]
      [] OTHER -> [ok |-> FALSE, value |-> Undefined]

\* The object handed to JSON.stringify at lines 91-106, as the fields of the
\* line it yields (none of them can be undefined, so none is dropped).  The
\* wall-clock `timestamp` field is left out of the model.
Entry_timestampAsOffset(topic, partition, message, processedData) ==
    [source |-> "database-cdc",
     topic |-> topic,
     partition |-> partition,
     offset |-> message.timestamp,
     changeType |-> processedData.changeType,
     table |-> processedData.table,
     database |-> processedData.database,
     primaryKey |-> processedData.primaryKey,
     changes |-> processedData.changes,
     metadata |-> [kafkaTimestamp |-> message.timestamp,
                   messageSize |-> Len(message.value[1])]]

Entry(topic, partition, message, processedData) ==
    [source |-> "database-cdc",
     topic |-> topic,
     partition |-> partition,
     offset |-> message.offset,
     changeType |-> processedData.changeType,
     table |-> processedData.table,
     database |-> processedData.database,
     primaryKey |-> processedData.primaryKey,
     changes |-> processedData.changes,
     metadata |-> [kafkaTimestamp |-> message.timestamp,
                   messageSize |-> Len(message.value[1])]]

WarnEmpty == [level |-> "warn", text |-> "Received empty message"]
ErrorParse == [level |-> "error", text |-> "Failed to parse message JSON:"]
InfoRaw(messageValue) ==
    [level |-> "info", text |-> "Raw message:", raw |-> messageValue]
ErrorStructure ==
    [level |-> "error", text |-> "Error processing CDC data structure:"]
ErrorProcessing == [level |-> "error", text |-> "Error processing message:"]
InfoEntry(entry) == [level |-> "info", text |-> "", entry |-> entry]

\* processMessage: the lines it logs, and whether an error leaves it.
ProcessMessage_parseErrorEscapes(topic, partition, message) ==
    IF message.value = <<>> \/ message.value[1] = ""
    THEN [logs |-> <<WarnEmpty>>, threw |-> FALSE]
    ELSE LET messageValue == message.value[1]
             parsed == JSONParse(messageValue)
         IN IF ~parsed.ok
            THEN [logs |-> <<>>, threw |-> TRUE]
            ELSE LET processedData == ProcessDatabaseChange(parsed.value) IN
                 [logs |-> <<InfoEntry(Entry(topic, partition, message,
                                             processedData.value))>>,
                  threw |-> FALSE]

ProcessMessage_emptyBufferParsed(topic, partition, message) ==
    IF message.value = <<>>
    THEN [logs |-> <<WarnEmpty>>, threw |-> FALSE]
    ELSE LET messageValue == message.value[1]
             parsed == JSONParse(messageValue)
         IN IF ~parsed.ok
            THEN [logs |-> <<ErrorParse, InfoRaw(messageValue)>>, threw |-> FALSE]
            ELSE LET processedData == ProcessDatabaseChange(parsed.value)
                     logged == IF processedData.caught
                               THEN <<ErrorStructure>> ELSE <<>>
                 IN [logs |-> logged \o
                              <<InfoEntry(Entry(topic, partition, message,
                                                processedData.value))>>,
                     threw |-> FALSE]

ProcessMessage(topic, partition, message) ==
    IF message.value = <<>> \/ message.value[1] = ""
    THEN [logs |-> <<WarnEmpty>>, threw |-> FALSE]
    ELSE LET messageValue == message.value[1]
             parsed == JSONParse(messageValue)
         IN IF ~parsed.ok
            THEN [logs |-> <<ErrorParse, InfoRaw(messageValue)>>, threw |-> FALSE]
            ELSE LET processedData == ProcessDatabaseChange(parsed.value)
                     logged == IF processedData.caught
                               THEN <<ErrorStructure>> ELSE <<>>
                 IN IF processedData.raised
                    THEN [logs |-> logged \o <<ErrorProcessing>>, threw |-> FALSE]
                    ELSE [logs |-> logged \o
                                   <<InfoEntry(Entry(topic, partition, message,
                                                     processedData.value))>>,
                          threw |-> FALSE]

\* processMessage in a dispatch where the serialisation of the entry (lines
\* 91-106) throws: the outer catch at line 108 logs the error.  The
\* logger calls themselves are taken not to throw.
ProcessMessageFault_noOuterCatch(topic, partition, message) ==
    IF message.value = <<>> \/ message.value[1] = ""
    THEN [logs |-> <<WarnEmpty>>, threw |-> FALSE]
    ELSE LET messageValue == message.value[1]
             parsed == JSONParse(messageValue)
         IN IF ~parsed.ok
            THEN [logs |-> <<ErrorParse, InfoRaw(messageValue)>>, threw |-> FALSE]
            ELSE LET processedData == ProcessDatabaseChange(parsed.value)
                     logged == IF processedData.caught
                               THEN <<ErrorStructure>> ELSE <<>>
                 IN [logs |-> logged, threw |-> TRUE]

ProcessMessageFault(topic, partition, message) ==
    IF message.value = <<>> \/ message.value[1] = ""
    THEN [logs |-> <<WarnEmpty>>, threw |-> FALSE]
    ELSE LET messageValue == message.value[1]
             parsed == JSONParse(messageValue)
         IN IF ~parsed.ok
            THEN [logs |-> <<ErrorParse, InfoRaw(messageValue)>>, threw |-> FALSE]
            ELSE LET processedData == ProcessDatabaseChange(parsed.value)
                     logged == IF processedData.caught
                               THEN <<ErrorStructure>> ELSE <<>>
                 IN [logs |-> logged \o <<ErrorProcessing>>, threw |-> FALSE]

\* the bodies delivered with such a fault
FaultBodies == {InsertText, NullRowText}

(***************************************************************************)
(* The process.                                                            *)
(***************************************************************************)
maxRetries == 10

\* GET /health
HealthStatus == IF isRunning THEN "healthy" ELSE "unhealthy"

NormIdle ==
    /\ payload = JNull
    /\ outcome = [raised |-> FALSE, value |-> DefaultResult(JNull), caught |-> FALSE]
    /\ phase = "off"

\* the tables initSchema creates
Tables == {"users", "user_tokens", "user_activities"}

\* startServer() has been called on a database holding the given tables
\* and, if user says so, the row of admin@test.com
BootStart(tables, user) ==
    [pc |-> "createConnection", connected |-> FALSE, tables |-> tables,
     user |-> user, errors |-> {}, listening |-> FALSE, exitCode |-> 0]

\* startServer() has completed on a fully initialised database
BootListening ==
    [pc |-> "listening", connected |-> TRUE, tables |-> Tables,
     user |-> TRUE, errors |-> {}, listening |-> TRUE, exitCode |-> 0]

\* The API server has accepted no request yet and table user_tokens is empty.
ApiIdle ==
    /\ now = 0
    /\ user_tokens = {}
    /\ requests = <<>>
    /\ revoked = {}
    /\ boot = BootListening

\* The module body has run: processor constructed, handlers registered, the
\* health server listening, startConsumer() awaiting admin.connect() of
\* attempt 1.
ProcInit ==
    /\ pc = "adminConnect"
    /\ attempt = 1
    /\ isRunning = FALSE
    /\ conn = "idle"
    /\ adminOpen = FALSE
    /\ stopping = 0
    /\ signals = 0
    /\ exited = FALSE
    /\ exitCode = 0
    /\ exitBy = "none"
    /\ delivered = <<>>
    /\ log = <<>>
    /\ loopCrashed = FALSE
    /\ resolved = [p \in Partitions |-> 0]
    /\ faulted = <<>>
    /\ lastHealth = "none"
    /\ failedAttempts = 0
    /\ runInvoked = FALSE
    /\ everRunning = FALSE
    /\ disconnectCalls = 0
    /\ delays = 0
    /\ probedAttempt = 0

Init == ProcInit /\ NormIdle /\ ApiIdle

\* process.exit(code)
Exit(code, by) ==
    /\ exited' = TRUE
    /\ exitCode' = code
    /\ exitBy' = by

NoExit == UNCHANGED <<exited, exitCode, exitBy>>

AttemptFailed_delaysAfterLast ==
    /\ failedAttempts' = failedAttempts + 1
    /\ NoExit /\ pc' = "delay" /\ delays' = delays + 1

\* the catch block of startConsumer, lines 225-235
AttemptFailed ==
    /\ failedAttempts' = failedAttempts + 1
    /\ IF attempt = maxRetries
       THEN Exit(1, "retriesExhausted") /\ pc' = pc /\ delays' = delays
       ELSE NoExit /\ pc' = "delay" /\ delays' = delays + 1

\* the catch block of start, lines 62-65
StartFailed ==
    /\ failedAttempts' = failedAttempts + 1
    /\ Exit(1, "startFailed")
    /\ pc' = pc
    /\ delays' = delays

msgVars == <<delivered, log, loopCrashed, resolved, faulted>>
sigVars == <<stopping, signals, disconnectCalls>>
startVars == <<isRunning, conn, runInvoked, everRunning>>

\* what no step of startConsumer touches
StartupFrame == UNCHANGED <<msgVars, sigVars, lastHealth, auxVars>>

(* testKafkaConnection, lines 240-251 *)

\* await admin.connect() resolves
AdminConnectOk ==
    /\ ~exited /\ pc = "adminConnect"
    /\ adminOpen' = TRUE
    /\ pc' = "listTopics"
    /\ UNCHANGED <<probedAttempt, attempt, startVars, failedAttempts, delays>>
    /\ NoExit /\ StartupFrame

\* await admin.connect() rejects: the catch block awaits admin.disconnect()
AdminConnectFail ==
    /\ ~exited /\ pc = "adminConnect"
    /\ pc' = "adminDisconnectCatch"
    /\ UNCHANGED <<probedAttempt, attempt, adminOpen, startVars, failedAttempts, delays>>
    /\ NoExit /\ StartupFrame

\* await admin.listTopics() resolves: the try block awaits admin.disconnect()
ListTopicsOk ==
    /\ ~exited /\ pc = "listTopics"
    /\ pc' = "adminDisconnect"
    /\ UNCHANGED <<probedAttempt, attempt, adminOpen, startVars, failedAttempts, delays>>
    /\ NoExit /\ StartupFrame

\* await admin.listTopics() rejects
ListTopicsFail ==
    /\ ~exited /\ pc = "listTopics"
    /\ pc' = "adminDisconnectCatch"
    /\ UNCHANGED <<probedAttempt, attempt, adminOpen, startVars, failedAttempts, delays>>
    /\ NoExit /\ StartupFrame

\* line 246 resolves: the probe returns and start() awaits consumer.connect()
AdminDisconnectOk ==
    /\ ~exited /\ pc = "adminDisconnect"
    /\ adminOpen' = FALSE
    /\ probedAttempt' = attempt
    /\ pc' = "connect"
    /\ UNCHANGED <<attempt, startVars, failedAttempts, delays>>
    /\ NoExit /\ StartupFrame

AdminDisconnectFail_ignored ==
    /\ ~exited /\ pc = "adminDisconnect"
    /\ pc' = "connect"
    /\ UNCHANGED <<probedAttempt, attempt, adminOpen, startVars, failedAttempts, delays>>
    /\ NoExit /\ StartupFrame

\* line 246 rejects: the catch block awaits admin.disconnect() again
AdminDisconnectFail ==
    /\ ~exited /\ pc = "adminDisconnect"
    /\ pc' = "adminDisconnectCatch"
    /\ UNCHANGED <<probedAttempt, attempt, adminOpen, startVars, failedAttempts, delays>>
    /\ NoExit /\ StartupFrame

\* line 248 resolves, line 249 throws into startConsumer's catch
CatchDisconnectOk ==
    /\ ~exited /\ pc = "adminDisconnectCatch"
    /\ adminOpen' = FALSE
    /\ AttemptFailed
    /\ UNCHANGED <<probedAttempt, attempt, startVars>>
    /\ StartupFrame

\* line 248 rejects: that error reaches startConsumer's catch
CatchDisconnectFail ==
    /\ ~exited /\ pc = "adminDisconnectCatch"
    /\ AttemptFailed
    /\ UNCHANGED <<probedAttempt, attempt, adminOpen, startVars>>
    /\ StartupFrame

(* CDCMessageProcessor.start, lines 41-66 *)

\* await consumer.connect() resolves
ConnectOk ==
    /\ ~exited /\ pc = "connect"
    /\ conn' = "connected"
    /\ pc' = "subscribe"
    /\ UNCHANGED <<probedAttempt, attempt, adminOpen, isRunning, runInvoked, everRunning,
                   failedAttempts, delays>>
    /\ NoExit /\ StartupFrame

ConnectFail ==
    /\ ~exited /\ pc = "connect"
    /\ StartFailed
    /\ UNCHANGED <<probedAttempt, attempt, adminOpen, startVars>>
    /\ StartupFrame

\* await consumer.subscribe() resolves: isRunning = true, consumer.run() called
SubscribeOk ==
    /\ ~exited /\ pc = "subscribe"
    /\ conn' = "subscribed"
    /\ isRunning' = TRUE
    /\ everRunning' = TRUE
    /\ runInvoked' = TRUE
    /\ pc' = "run"
    /\ UNCHANGED <<probedAttempt, attempt, adminOpen, failedAttempts, delays>>
    /\ NoExit /\ StartupFrame

SubscribeFail ==
    /\ ~exited /\ pc = "subscribe"
    /\ StartFailed
    /\ UNCHANGED <<probedAttempt, attempt, adminOpen, startVars>>
    /\ StartupFrame

\* await consumer.run() resolves: start() and startConsumer() return
RunOk ==
    /\ ~exited /\ pc = "run"
    /\ conn' = "running"
    /\ pc' = "started"
    /\ UNCHANGED <<probedAttempt, attempt, adminOpen, isRunning, runInvoked, everRunning,
                   failedAttempts, delays>>
    /\ NoExit /\ StartupFrame

RunFail ==
    /\ ~exited /\ pc = "run"
    /\ StartFailed
    /\ UNCHANGED <<probedAttempt, attempt, adminOpen, startVars>>
    /\ StartupFrame

\* the retryDelay timer fires: the loop's next iteration awaits admin.connect()
RetryDelay ==
    /\ ~exited /\ pc = "delay"
    /\ attempt' = attempt + 1
    /\ pc' = "adminConnect"
    /\ UNCHANGED <<probedAttempt, adminOpen, startVars, failedAttempts, delays>>
    /\ NoExit /\ StartupFrame

(* stop() and the signal handlers, lines 166-189 *)

\* SIGTERM or SIGINT: the handler calls stop(); with isRunning false stop()
\* returns at once and the handler exits, otherwise it awaits
\* consumer.disconnect().
Signal(sig) ==
    /\ ~exited /\ signals < MaxSignals
    /\ signals' = signals + 1
    /\ IF isRunning
       THEN /\ stopping' = stopping + 1
            /\ disconnectCalls' = disconnectCalls + 1
            /\ NoExit
       ELSE /\ UNCHANGED <<stopping, disconnectCalls>>
            /\ Exit(0, "signal")
    /\ UNCHANGED <<pc, probedAttempt, attempt, adminOpen, startVars, failedAttempts, delays, msgVars,
                   lastHealth, auxVars>>

DisconnectOk_statusOne ==
    /\ ~exited /\ stopping > 0
    /\ stopping' = stopping - 1
    /\ conn' = "disconnected"
    /\ isRunning' = FALSE
    /\ Exit(1, "signal")
    /\ UNCHANGED <<pc, probedAttempt, attempt, adminOpen, runInvoked, everRunning, signals,
                   disconnectCalls, failedAttempts, delays, msgVars, lastHealth,
                   auxVars>>

\* consumer.disconnect() resolves in a handler: isRunning = false, exit(0)
DisconnectOk ==
    /\ ~exited /\ stopping > 0
    /\ stopping' = stopping - 1
    /\ conn' = "disconnected"
    /\ isRunning' = FALSE
    /\ Exit(0, "signal")
    /\ UNCHANGED <<pc, probedAttempt, attempt, adminOpen, runInvoked, everRunning, signals,
                   disconnectCalls, failedAttempts, delays, msgVars, lastHealth,
                   auxVars>>

\* consumer.disconnect() rejects: stop() and the handler reject, and the
\* unhandled rejection ends the process with status 1 (Node.js 18).
DisconnectFail ==
    /\ ~exited /\ stopping > 0
    /\ stopping' = stopping - 1
    /\ Exit(1, "unhandledRejection")
    /\ UNCHANGED <<pc, probedAttempt, attempt, adminOpen, startVars, signals, disconnectCalls,
                   failedAttempts, delays, msgVars, lastHealth, auxVars>>

(* the message loop, lines 56-60 *)

Offset(partition) ==
    Cardinality({i \in 1..Len(delivered) : delivered[i].partition = partition})

\* a dispatch that hands the message to processMessage and is suspended
\* inside it, as an await between lines 70 and 106 would leave it
Dispatch_suspendedMidway(partition, value, fault) ==
    /\ ~exited /\ conn = "running" /\ ~loopCrashed
    /\ Len(delivered) < MaxMsgs
    /\ delivered' = Append(delivered,
            [partition |-> partition, offset |-> Offset(partition),
             timestamp |-> Len(delivered) + 1, value |-> value])
    /\ log' = Append(log, <<>>)
    /\ faulted' = Append(faulted, fault)
    /\ UNCHANGED <<loopCrashed, resolved>>
    /\ UNCHANGED <<pc, probedAttempt, attempt, adminOpen, startVars, failedAttempts, delays,
                   sigVars, lastHealth, auxVars>>
    /\ NoExit

\* The broker client hands the next message of a partition to eachMessage,
\* which runs processMessage to its end (it awaits nothing).  When the
\* callback returns the client advances past the message; an error leaving
\* eachMessage stops the client from advancing.  fault says the
\* serialisation of the entry is made to throw in this dispatch.
Dispatch(partition, value, fault) ==
    /\ ~exited /\ conn = "running" /\ ~loopCrashed
    /\ Len(delivered) < MaxMsgs
    /\ LET message == [partition |-> partition, offset |-> Offset(partition),
                       timestamp |-> Len(delivered) + 1, value |-> value]
           done == IF fault
                   THEN ProcessMessageFault(Topic, partition, message)
                   ELSE ProcessMessage(Topic, partition, message)
       IN /\ delivered' = Append(delivered, message)
          /\ log' = Append(log, done.logs)
          /\ loopCrashed' = done.threw
          /\ resolved' = IF done.threw THEN resolved
                         ELSE [resolved EXCEPT ![partition] = message.offset + 1]
          /\ faulted' = Append(faulted, fault)
    /\ UNCHANGED <<pc, probedAttempt, attempt, adminOpen, startVars, failedAttempts, delays, sigVars,
                   lastHealth, auxVars>>
    /\ NoExit

Deliver(partition, value) == Dispatch(partition, value, FALSE)

\* a delivery during which JSON.stringify at lines 91-106 throws
DeliverFault(partition, value) ==
    /\ value \in {<<b>> : b \in FaultBodies}
    /\ Dispatch(partition, value, TRUE)

Health_whenStarted ==
    /\ ~exited /\ pc = "started"
    /\ lastHealth' = HealthStatus
    /\ UNCHANGED <<pc, probedAttempt, attempt, adminOpen, startVars, failedAttempts, delays,
                   sigVars, msgVars, auxVars>>
    /\ NoExit

\* GET /health, lines 196-202
Health ==
    /\ ~exited
    /\ lastHealth' = HealthStatus
    /\ UNCHANGED <<pc, probedAttempt, attempt, adminOpen, startVars, failedAttempts, delays, sigVars,
                   msgVars, auxVars>>
    /\ NoExit

Next ==
    \/ AdminConnectOk \/ AdminConnectFail
    \/ ListTopicsOk \/ ListTopicsFail
    \/ AdminDisconnectOk \/ AdminDisconnectFail
    \/ CatchDisconnectOk \/ CatchDisconnectFail
    \/ ConnectOk \/ ConnectFail
    \/ SubscribeOk \/ SubscribeFail
    \/ RunOk \/ RunFail
    \/ RetryDelay
    \/ \E sig \in {"SIGTERM", "SIGINT"} : Signal(sig)
    \/ DisconnectOk \/ DisconnectFail
    \/ \E partition \in Partitions, value \in Values : Deliver(partition, value)
    \/ Health

Spec == Init /\ [][Next]_vars

\* Spec with deliveries whose serialisation throws
NextFault ==
    \/ Next
    \/ \E partition \in Partitions, value \in Values : DeliverFault(partition, value)

SpecFault == Init /\ [][NextFault]_vars

(***************************************************************************)
(* SpecNorm: processDatabaseChange on one parsed payload.                  *)
(***************************************************************************)
SeqsUpTo(S, n) == UNION {[1..k -> S] : k \in 0..n}

Rows ==
    {JObj(<< <<"id", JNum(1)>>, <<"name", JStr("a")>> >>),
     JObj(<< <<"name", JStr("a")>> >>),
     JObj(<< <<"id", JNum(0)>> >>),
     JObj(<< <<"id", JNull>> >>),
     JNull,
     JNum(5),
     JStr("row")}

\* Undefined stands for "the key is absent"
TypeChoices ==
    {Undefined, JStr("insert"), JStr("update"), JStr("delete"), JStr("truncate"),
     JStr("")}
NameChoices(name) == {Undefined, JStr(name)}
DataChoices ==
    {Undefined, JNull, JStr("rows"), JObj(<< <<"id", JNum(1)>> >>)}
        \cup {JArr(rows) : rows \in SeqsUpTo(Rows, MaxRows)}
OldDataChoices ==
    {Undefined, JNull, JObj(<< <<"id", JNum(1)>>, <<"name", JStr("b")>> >>)}
TsChoices == {Undefined, JNum(0), JNum(1700)}
TimestampChoices == {Undefined, JNum(1600)}

Field(key, value) ==
    IF value.t = "undefined" THEN <<>> ELSE << <<key, value>> >>

ObjectPayloads ==
    {JObj(Field("type", ty) \o Field("database", db) \o Field("table", tb)
          \o Field("data", da) \o Field("old_data", od) \o Field("ts", ts)
          \o Field("timestamp", tm)) :
        ty \in TypeChoices, db \in NameChoices("sre_test"),
        tb \in NameChoices("users"), da \in DataChoices, od \in OldDataChoices,
        ts \in TsChoices, tm \in TimestampChoices}

OtherPayloads ==
    {JNull, JNum(0), JNum(5), JStr(""), JStr("x"), JBool(TRUE), JBool(FALSE),
     JArr(<<>>), JArr(<<JNum(1)>>), JObj(<< <<"foo", JNum(1)>> >>)}

Payloads == ObjectPayloads \cup OtherPayloads

InitNorm ==
    /\ ProcInit
    /\ payload \in Payloads
    /\ outcome = [raised |-> FALSE, value |-> DefaultResult(JNull), caught |-> FALSE]
    /\ phase = "input"
    /\ ApiIdle

Normalize ==
    /\ phase = "input"
    /\ outcome' = ProcessDatabaseChange(payload)
    /\ phase' = "done"
    /\ UNCHANGED <<payload, procVars, apiVars>>

NextNorm == Normalize

SpecNorm == InitNorm /\ [][NextNorm]_vars

(***************************************************************************)
(* Properties of the startup, shutdown and health paths (Spec).            *)
(***************************************************************************)
StartupExit == exited /\ exitBy \in {"startFailed", "retriesExhausted"}
ConnOpen == conn \in {"connected", "subscribed", "running"}

\* C1: a startup failure (probe, connect or subscribe) in fewer than
\* maxRetries attempts never ends the process: it exits because of startup
\* failures only once maxRetries attempts have failed.
C1_TransientFailureNeverExits ==
    StartupExit => failedAttempts = maxRetries

\* C2: when the process exits because its startup attempts failed, the exit
\* status is non-zero, consumer.run was never invoked, isRunning was never
\* true and no message was processed.
C2_ExhaustionNeverStartsConsumption ==
    StartupExit =>
        /\ exitCode # 0
        /\ ~runInvoked
        /\ ~everRunning
        /\ delivered = <<>>

\* C3: in every state of the running process /health answers "healthy"
\* exactly when consumer.run has completed successfully.
C3_HealthyOnlyAfterLoopStarted ==
    ~exited => (HealthStatus = "healthy" <=> conn = "running")

\* C4: when a signal handler ends the process, the consumer-group connection
\* is not open any more: if it was open, disconnect completed first.
C4_DisconnectBeforeSignalExit ==
    (exited /\ exitBy = "signal") => ~ConnOpen

(***************************************************************************)
(* Properties of the message loop (Spec).                                  *)
(***************************************************************************)
Empty(m) == m.value = <<>> \/ m.value[1] = ""
Parseable(m) == ~Empty(m) /\ JSONParse(m.value[1]).ok
Unparseable(m) == ~Empty(m) /\ ~JSONParse(m.value[1]).ok

IsEntry(line) == "entry" \in DOMAIN line
\* the structured entries logged for the i-th delivered message
EntriesOf(i) == {k \in 1..Len(log[i]) : IsEntry(log[i][k])}
\* a structured entry for the i-th delivered message was emitted
Emitted(i) ==
    \E k \in EntriesOf(i) :
        /\ log[i][k].entry.partition = delivered[i].partition
        /\ log[i][k].entry.offset = delivered[i].offset

\* C5: an unparseable message is logged (the parse error and the raw body)
\* and yields no structured entry; every parseable message delivered after
\* it is emitted, and the loop is not halted.
C5_ParseFailureSkipped ==
    /\ Len(log) = Len(delivered)
    /\ \A i \in 1..Len(delivered) :
         Unparseable(delivered[i]) =>
            /\ log[i] = <<ErrorParse, InfoRaw(delivered[i].value[1])>>
            /\ EntriesOf(i) = {}
            /\ ~loopCrashed
            /\ \A j \in (i + 1)..Len(delivered) :
                 Parseable(delivered[j]) => Emitted(j)

C5_Witness ==
    /\ Len(delivered) = 2
    /\ Unparseable(delivered[1])
    /\ delivered[2].value = <<InsertText>>
    /\ Emitted(2)

\* C6: exactly one structured entry is emitted for every message whose body
\* parses, whatever the parsed value, and none for an empty or unparseable
\* one.
C6_OneEntryPerParsedMessage ==
    /\ Len(log) = Len(delivered)
    /\ \A i \in 1..Len(delivered) :
         IF Parseable(delivered[i])
         THEN Cardinality(EntriesOf(i)) = 1 /\ Emitted(i)
         ELSE EntriesOf(i) = {}

C6_Witness ==
    /\ Len(delivered) = 2
    /\ delivered[1].value = <<"null">>
    /\ delivered[2].value = <<NullRowText>>
    /\ Cardinality(EntriesOf(1)) = 1
    /\ Cardinality(EntriesOf(2)) = 1

(***************************************************************************)
(* Properties of processDatabaseChange (SpecNorm).                         *)
(***************************************************************************)
OptionalKeys == {"type", "database", "table", "data", "old_data", "ts", "timestamp"}

\* payload.key where the payload has such a field, else undefined
Prop(key) == IF Readable(payload) THEN Get(payload, key) ELSE Undefined

\* the first element of payload.data is a mapping with an id field
FirstRowHasId ==
    /\ IsArray(Prop("data"))
    /\ Len(Prop("data").v) > 0
    /\ HasKey(Prop("data").v[1], "id")

\* C7: processDatabaseChange never raises, and the fields the payload gives
\* no value for hold their defaults.
C7_NeverRaises ==
    phase = "done" =>
        /\ ~outcome.raised
        /\ outcome.value.rawData = payload
        /\ ~Truthy(Prop("type")) => outcome.value.changeType = JStr("unknown")
        /\ ~Truthy(Prop("database")) => outcome.value.database = JNull
        /\ ~Truthy(Prop("table")) => outcome.value.table = JNull
        /\ ~FirstRowHasId => outcome.value.primaryKey = JNull

C7_Witness ==
    /\ phase = "done"
    /\ outcome.caught
    /\ HasKey(payload, "data")
    /\ outcome.value.changeType = JStr("update")
    /\ outcome.value.primaryKey = JNull

\* C8: a payload with none of the optional fields yields the default record.
C8_AllDefaults ==
    (phase = "done" /\ \A key \in OptionalKeys : ~HasKey(payload, key)) =>
        /\ outcome.value.changeType = JStr("unknown")
        /\ outcome.value.database = JNull
        /\ outcome.value.table = JNull
        /\ outcome.value.primaryKey = JNull
        /\ outcome.value.changes = JObj(<<>>)
        /\ outcome.value.oldData = Undefined
        /\ outcome.value.changeTimestamp = Undefined

C8_Witness ==
    /\ phase = "done"
    /\ payload = JObj(<< <<"foo", JNum(1)>> >>)
    /\ outcome.value.changes = JObj(<<>>)

\* C9: primaryKey is {id: v}, v the id of the first element of payload.data,
\* when that element has an id field; it is null in every other case.
C9_PrimaryKeyFromFirstRow ==
    phase = "done" =>
        IF FirstRowHasId
        THEN outcome.value.primaryKey =
                 JObj(<< <<"id", Get(Prop("data").v[1], "id")>> >>)
        ELSE outcome.value.primaryKey = JNull

C9_Witness ==
    /\ phase = "done"
    /\ FirstRowHasId
    /\ Len(Prop("data").v) = 2
    /\ Get(Prop("data").v[1], "id") = JNum(0)
    /\ Get(Prop("data").v[2], "id") = JNum(1)
    /\ outcome.value.primaryKey = JObj(<< <<"id", JNum(0)>> >>)

\* C10: changes is payload.data whenever that is a sequence (empty or not,
\* whatever its elements), and the empty mapping when data is absent.
C10_ChangesVerbatim ==
    phase = "done" =>
        /\ IsArray(Prop("data")) => outcome.value.changes = Prop("data")
        /\ ~HasKey(payload, "data") => outcome.value.changes = JObj(<<>>)

\* the data field is a non-empty sequence whose elements are all mappings
DataIsRowMappings ==
    /\ IsArray(Prop("data"))
    /\ Len(Prop("data").v) > 0
    /\ \A i \in 1..Len(Prop("data").v) : Prop("data").v[i].t = "obj"

\* C11: a payload with type "update", an old_data mapping and a non-empty
\* data sequence of row mappings yields changeType "update", oldData =
\* old_data and changes = data; and oldData = payload.old_data whenever
\* old_data is present (stated here for an old_data that is a mapping).
C11_OldDataCarried ==
    phase = "done" =>
        /\ (/\ Prop("type") = JStr("update")
            /\ Prop("old_data").t = "obj"
            /\ DataIsRowMappings)
           => /\ outcome.value.changeType = JStr("update")
              /\ outcome.value.oldData = Prop("old_data")
              /\ outcome.value.changes = Prop("data")
        /\ Prop("old_data").t = "obj" => outcome.value.oldData = Prop("old_data")

RecognisedTypes == {JStr("insert"), JStr("update"), JStr("delete")}

\* C12: changeType is always "insert", "update", "delete" or "unknown": it is
\* payload.type when that is one of the three kinds and "unknown" when
\* payload.type is absent or unrecognised.
C12_ChangeTypeRecognised ==
    phase = "done" =>
        /\ outcome.value.changeType \in RecognisedTypes \cup {JStr("unknown")}
        /\ IF Prop("type") \in RecognisedTypes
           THEN outcome.value.changeType = Prop("type")
           ELSE outcome.value.changeType = JStr("unknown")

(***************************************************************************)
(* Further properties of the message loop and of shutdown.                 *)
(***************************************************************************)
\* the change record processMessage builds for the i-th delivered message
RecordOf(i) == ProcessDatabaseChange(JSONParse(delivered[i].value[1]).value).value

\* C13: every structured entry carries the source tag, the message metadata
\* and every field of the change record built for its message: changeType,
\* database, table, primaryKey, changes, oldData and changeTimestamp when
\* the record has them, and the raw payload.
C13_EntryCarriesRecord ==
    \A i \in 1..Len(delivered) : \A k \in EntriesOf(i) :
        LET e == log[i][k].entry
            rec == RecordOf(i)
        IN /\ e.source = "database-cdc"
           /\ e.topic = Topic
           /\ e.partition = delivered[i].partition
           /\ e.offset = delivered[i].offset
           /\ e.metadata.kafkaTimestamp = delivered[i].timestamp
           /\ e.metadata.messageSize = Len(delivered[i].value[1])
           /\ e.changeType = rec.changeType
           /\ e.database = rec.database
           /\ e.table = rec.table
           /\ e.primaryKey = rec.primaryKey
           /\ e.changes = rec.changes
           /\ rec.oldData # Undefined =>
                 ("oldData" \in DOMAIN e /\ e.oldData = rec.oldData)
           /\ rec.changeTimestamp # Undefined =>
                 ("changeTimestamp" \in DOMAIN e
                      /\ e.changeTimestamp = rec.changeTimestamp)
           /\ "rawData" \in DOMAIN e
           /\ e.rawData = rec.rawData

\* the i-th delivered message was emitted, or skipped as empty or unparseable
Handled(i) ==
    \/ Emitted(i)
    \/ Empty(delivered[i]) /\ log[i] = <<WarnEmpty>>
    \/ /\ Unparseable(delivered[i])
       /\ log[i] = <<ErrorParse, InfoRaw(delivered[i].value[1])>>

\* the broker client has advanced past the i-th delivered message
Advanced(i) == delivered[i].offset < resolved[delivered[i].partition]

\* C14: the client advances past a message only when its callback has
\* returned, after the message was normalized and emitted or skipped as
\* empty/unparseable; no delivered message is passed over unhandled.
C14_ProcessBeforeAdvance ==
    /\ Len(log) = Len(delivered)
    /\ \A p \in Partitions : resolved[p] <= Offset(p)
    /\ \A i \in 1..Len(delivered) : Handled(i) /\ Advanced(i)

C14_Witness ==
    /\ Len(delivered) = 2
    /\ delivered[1].partition = delivered[2].partition
    /\ Unparseable(delivered[1])
    /\ Parseable(delivered[2])
    /\ resolved[delivered[2].partition] = 2

\* C15: messages of one partition are processed in delivery order, one at
\* a time: when a later message of the partition has been dispatched the
\* earlier one's entry is already in the log, entries of a partition appear
\* in increasing offset order, and at most one message of a partition is
\* not yet advanced past.
C15_PerPartitionOrder ==
    /\ \A p \in Partitions : Offset(p) - resolved[p] <= 1
    /\ \A i, j \in 1..Len(delivered) :
         (i < j /\ delivered[i].partition = delivered[j].partition) =>
            /\ delivered[i].offset < delivered[j].offset
            /\ Advanced(i)
            /\ Parseable(delivered[i]) => Emitted(i)
            /\ \A k \in EntriesOf(i), l \in EntriesOf(j) :
                 log[i][k].entry.offset < log[j][l].entry.offset

C15_Witness ==
    /\ Len(delivered) = 2
    /\ delivered[1].partition = 1
    /\ delivered[2].partition = 1
    /\ delivered[1].value = <<"{}">>
    /\ delivered[2].value = <<InsertText>>
    /\ Emitted(1)
    /\ Emitted(2)

\* C16: a shutdown started by a signal ends the process with status 0, also
\* when consumer.disconnect fails.
C16_FailedDisconnectExitsZero ==
    (exited /\ exitBy \in {"signal", "unhandledRejection"}) => exitCode = 0

\* C17: the process exits with a non-zero status because of a startup
\* failure only on the last attempt.
C17_FatalOnlyOnExhaustion ==
    (exited /\ exitCode # 0 /\ exitBy \in {"startFailed", "retriesExhausted"})
        => attempt = maxRetries

\* an extraction error was caught while normalizing the i-th message
CaughtInside(i) ==
    \E k \in 1..Len(log[i]) : log[i][k] = ErrorStructure

C19_EmptySkipped ==
    \A i \in 1..Len(delivered) :
        Empty(delivered[i]) => log[i] = <<WarnEmpty>>

C19_Witness ==
    /\ Len(delivered) = 2
    /\ delivered[1].value = <<>>
    /\ delivered[2].value = <<"">>
    /\ log = << <<WarnEmpty>>, <<WarnEmpty>> >>

(***************************************************************************)
(* The API server's authenticated routes (api/src/server.js).  A request   *)
(* runs from one await to the next without interleaving; at each await the *)
(* database executes the statement and other requests may run.  The clock  *)
(* counts units of half a token lifetime.  A JWT is a deterministic        *)
(* function of its payload and its issue time, so two logins of one user   *)
(* in the same clock unit sign the same token string.                      *)
(***************************************************************************)
TokenTTL == 2
MaxTime == 2
MaxRequests == 2

\* the seeded user
Users == {1}

\* no Authorization header
NoToken == [user |-> 0, iat |-> 0, sig |-> FALSE]

\* jwt.sign({ userId, email }, secret, { expiresIn: '24h' })
JwtSign(user, at) == [user |-> user, iat |-> at, sig |-> TRUE]

\* jwt.verify(token, secret): throws on a bad signature or once exp is reached
JwtVerify(token, at) == token.sig /\ at < token.iat + TokenTTL

\* the row login inserts: expiresAt is the signing time plus 24 hours
TokenRow(token) == [token_hash |-> token, expires_at |-> token.iat + TokenTTL]

\* SELECT ... WHERE ut.token_hash = ? AND ut.expires_at > NOW()
SelectToken(token, at) ==
    {row \in user_tokens : row.token_hash = token /\ row.expires_at > at}

DeleteToken_keepsRows(token) == user_tokens

\* DELETE FROM user_tokens WHERE token_hash = ?
DeleteToken(token) == {row \in user_tokens : row.token_hash # token}

\* what a client can put in the Authorization header at a given time
Presentable(at) ==
    {NoToken, [user |-> 1, iat |-> 0, sig |-> FALSE]}
        \cup {JwtSign(user, iat) : user \in Users, iat \in 0..at}

Stored(token) == \E row \in user_tokens : row.token_hash = token

NewRequest(kind, token, at, status) ==
    [kind |-> kind, token |-> token, pc |-> at, status |-> status,
     checked |-> FALSE,      \* the middleware's SELECT has been answered
     called |-> FALSE,       \* next() has invoked the route's handler
     okAtCheck |-> FALSE,    \* history: stored and unexpired when checked
     mustReject |-> (kind # "login" /\ token \in revoked),
     cleanDelete |-> FALSE,  \* history: no login stored the token since DELETE
     changed |-> FALSE]      \* history: a statement of it changed user_tokens

Finish(i, status) ==
    requests' = [requests EXCEPT ![i].pc = "done", ![i].status = status]

Pending(i, at) == i \in DOMAIN requests /\ requests[i].pc = at

ApiFrame == UNCHANGED <<procVars, normVars, boot>>

\* POST /api/auth/login with both fields: awaits the users lookup and bcrypt
LoginArrive(user) ==
    /\ Len(requests) < MaxRequests
    /\ requests' = Append(requests, NewRequest("login", JwtSign(user, 0), "credentials", 0))
    /\ UNCHANGED <<now, user_tokens, revoked>>
    /\ ApiFrame

\* unknown email or wrong password
LoginInvalid(i) ==
    /\ Pending(i, "credentials")
    /\ Finish(i, 401)
    /\ UNCHANGED <<now, user_tokens, revoked>>
    /\ ApiFrame

\* the credentials match: the token is signed and its INSERT is sent
LoginSign(i) ==
    /\ Pending(i, "credentials")
    /\ requests' = [requests EXCEPT ![i].pc = "insert",
                                    ![i].token = JwtSign(requests[i].token.user, now)]
    /\ UNCHANGED <<now, user_tokens, revoked>>
    /\ ApiFrame

\* INSERT INTO user_tokens succeeds; the activity INSERT is sent
LoginInsertOk(i) ==
    /\ Pending(i, "insert")
    /\ LET token == requests[i].token
       IN /\ user_tokens' = user_tokens \cup {TokenRow(token)}
          /\ revoked' = revoked \ {token}
          /\ requests' = [j \in DOMAIN requests |->
                IF j = i THEN [requests[j] EXCEPT !.pc = "activity", !.changed = TRUE]
                ELSE IF requests[j].kind # "login" /\ requests[j].token = token
                THEN [requests[j] EXCEPT !.mustReject = FALSE, !.cleanDelete = FALSE]
                ELSE requests[j]]
    /\ UNCHANGED now
    /\ ApiFrame

LoginInsertFail(i) ==
    /\ Pending(i, "insert")
    /\ Finish(i, 500)
    /\ UNCHANGED <<now, user_tokens, revoked>>
    /\ ApiFrame

\* the activity row is written and the token is returned
LoginActivityOk(i) ==
    /\ Pending(i, "activity")
    /\ requests[i].kind = "login"
    /\ Finish(i, 200)
    /\ UNCHANGED <<now, user_tokens, revoked>>
    /\ ApiFrame

LoginActivityFail(i) ==
    /\ Pending(i, "activity")
    /\ requests[i].kind = "login"
    /\ Finish(i, 500)
    /\ UNCHANGED <<now, user_tokens, revoked>>
    /\ ApiFrame

\* a request to an authenticated route enters authenticateToken, which runs
\* up to its await: header check, jwt.verify, then the SELECT is sent
AuthArrive(kind, token) ==
    /\ Len(requests) < MaxRequests
    /\ kind \in {"profile", "logout"}
    /\ token \in Presentable(now)
    /\ requests' = Append(requests,
            IF token = NoToken \/ ~JwtVerify(token, now)
            THEN NewRequest(kind, token, "done", 401)
            ELSE NewRequest(kind, token, "select", 0))
    /\ UNCHANGED <<now, user_tokens, revoked>>
    /\ ApiFrame

\* the SELECT is answered: no row is a 401, a row calls next(); the profile
\* handler answers at once, the logout handler sends its DELETE
AuthSelect(i) ==
    /\ Pending(i, "select")
    /\ LET r == requests[i]
           found == SelectToken(r.token, now) # {}
           seen == [r EXCEPT !.checked = TRUE,
                             !.okAtCheck = Stored(r.token) /\ now < r.token.iat + TokenTTL]
       IN requests' = [requests EXCEPT ![i] =
                IF ~found THEN [seen EXCEPT !.pc = "done", !.status = 401]
                ELSE IF r.kind = "profile"
                THEN [seen EXCEPT !.called = TRUE, !.pc = "done", !.status = 200]
                ELSE [seen EXCEPT !.called = TRUE, !.pc = "delete"]]
    /\ UNCHANGED <<now, user_tokens, revoked>>
    /\ ApiFrame

\* the SELECT is rejected: the middleware's catch answers 401
AuthSelectFail(i) ==
    /\ Pending(i, "select")
    /\ Finish(i, 401)
    /\ UNCHANGED <<now, user_tokens, revoked>>
    /\ ApiFrame

\* the DELETE is executed; the activity INSERT is sent
LogoutDeleteOk(i) ==
    /\ Pending(i, "delete")
    /\ user_tokens' = DeleteToken(requests[i].token)
    /\ requests' = [requests EXCEPT
                        ![i].pc = "activity",
                        ![i].cleanDelete = TRUE,
                        ![i].changed = (DeleteToken(requests[i].token) # user_tokens)]
    /\ UNCHANGED <<now, revoked>>
    /\ ApiFrame

LogoutDeleteFail(i) ==
    /\ Pending(i, "delete")
    /\ Finish(i, 500)
    /\ UNCHANGED <<now, user_tokens, revoked>>
    /\ ApiFrame

\* the activity row is written: 'Logged out successfully'
LogoutActivityOk(i) ==
    /\ Pending(i, "activity")
    /\ requests[i].kind = "logout"
    /\ Finish(i, 200)
    /\ revoked' = IF requests[i].cleanDelete
                  THEN revoked \cup {requests[i].token} ELSE revoked
    /\ UNCHANGED <<now, user_tokens>>
    /\ ApiFrame

LogoutActivityFail(i) ==
    /\ Pending(i, "activity")
    /\ requests[i].kind = "logout"
    /\ Finish(i, 500)
    /\ UNCHANGED <<now, user_tokens, revoked>>
    /\ ApiFrame

\* time passes
Tick ==
    /\ now < MaxTime
    /\ now' = now + 1
    /\ UNCHANGED <<user_tokens, requests, revoked>>
    /\ ApiFrame

NextApi ==
    \/ \E user \in Users : LoginArrive(user)
    \/ \E kind \in {"profile", "logout"}, token \in Presentable(MaxTime) :
          AuthArrive(kind, token)
    \/ \E i \in 1..MaxRequests :
          \/ LoginInvalid(i)
          \/ LoginSign(i)
          \/ LoginInsertOk(i)
          \/ LoginInsertFail(i)
          \/ LoginActivityOk(i)
          \/ LoginActivityFail(i)
          \/ AuthSelect(i)
          \/ AuthSelectFail(i)
          \/ LogoutDeleteOk(i)
          \/ LogoutDeleteFail(i)
          \/ LogoutActivityOk(i)
          \/ LogoutActivityFail(i)
    \/ Tick

\* The server is listening; user_tokens, which outlives the server process,
\* is empty or holds the token an earlier login signed at time 0.
InitApi ==
    /\ ProcInit
    /\ NormIdle
    /\ now = 0
    /\ user_tokens \in SUBSET {TokenRow(JwtSign(user, 0)) : user \in Users}
    /\ requests = <<>>
    /\ revoked = {}
    /\ boot = BootListening

SpecApi == InitApi /\ [][NextApi]_vars

\* C20: once a logout of token t has answered 200, every request to an
\* authenticated route that arrives afterwards bearing t is answered 401 and
\* its handler is not called, unless a login has stored t again after that
\* logout's DELETE; and whenever the middleware calls a route's handler, the
\* presented token was stored in user_tokens and unexpired at the moment its
\* lookup was answered.
C20_RevokedTokenRejected ==
    \A i \in DOMAIN requests :
        LET r == requests[i]
        IN /\ r.mustReject =>
                 /\ ~r.called
                 /\ r.pc = "done" => r.status = 401
           /\ r.called => r.okAtCheck

\* a token passed the middleware, was logged out with 200, and a later
\* request bearing it reached the lookup and was answered 401
C20_Witness ==
    \E j, k \in DOMAIN requests :
        /\ j < k
        /\ requests[j].kind = "logout" /\ requests[j].status = 200
        /\ requests[j].called /\ requests[j].okAtCheck
        /\ requests[k].token = requests[j].token
        /\ requests[k].mustReject /\ requests[k].checked
        /\ requests[k].pc = "done" /\ requests[k].status = 401

(***************************************************************************)
(* Further properties of startup (Spec).                                   *)
(***************************************************************************)
\* C21: startup makes at most 10 attempts: the attempt counter stays within
\* 1..10; one retry delay is started after each failed attempt but the last,
\* so the delays started number attempt - 1 outside a delay and never more
\* than 9, and no delay follows the tenth attempt or a fatal failure; once
\* an attempt has succeeded no further attempt or delay begins.
C21_AtMostTenAttempts ==
    /\ [](/\ attempt \in 1..maxRetries
          /\ delays <= maxRetries - 1
          /\ delays = (IF pc = "delay" THEN attempt ELSE attempt - 1)
          /\ pc = "delay" => attempt < maxRetries
          /\ StartupExit => pc # "delay")
    /\ [][pc = "started" =>
            (pc' = "started" /\ attempt' = attempt /\ delays' = delays)]_vars

\* the tenth probe failed after nine delays and the process ended
C21_Witness ==
    /\ exited
    /\ exitBy = "retriesExhausted"
    /\ attempt = maxRetries
    /\ delays = maxRetries - 1
    /\ failedAttempts = maxRetries

\* C22: within an attempt the steps run in order: consumer.connect is
\* awaited only when the probe of that same attempt has returned normally,
\* subscribe only when connect has succeeded, consumer.run has been called
\* only when subscribe has succeeded, and a message is processed only when
\* consumer.run has been called.
C22_StartupStepOrder ==
    /\ pc \in {"connect", "subscribe", "run", "started"} => probedAttempt = attempt
    /\ conn # "idle" => probedAttempt = attempt
    /\ pc = "connect" => conn = "idle"
    /\ pc = "subscribe" => conn = "connected"
    /\ runInvoked => conn \in {"subscribed", "running", "disconnected"}
    /\ pc \in {"run", "started"} => runInvoked
    /\ Len(delivered) > 0 => runInvoked

\* the first probe failed; the second attempt went through all four steps
\* and a message was processed
C22_Witness ==
    /\ attempt = 2
    /\ probedAttempt = 2
    /\ pc = "started"
    /\ conn = "running"
    /\ Len(delivered) > 0

(***************************************************************************)
(* Further properties of processDatabaseChange (SpecNorm).                 *)
(***************************************************************************)
\* C23: changeTimestamp is payload.ts when the payload has a ts, otherwise
\* payload.timestamp when it has one, and is absent from the record when it
\* has neither (stated here for payloads whose extraction raised no error).
C23_TimestampFallback ==
    (phase = "done" /\ ~outcome.caught) =>
        outcome.value.changeTimestamp =
            (IF Prop("ts") # Undefined THEN Prop("ts")
             ELSE IF Prop("timestamp") # Undefined THEN Prop("timestamp")
             ELSE Undefined)

\* C24: the record returned by processDatabaseChange holds the parsed
\* payload itself as rawData, for every payload, whether or not an
\* extraction error was caught.
C24_RawPayloadRetained ==
    phase = "done" =>
        /\ ~outcome.raised
        /\ outcome.value.rawData = payload

\* a payload whose first row is null: the error was caught and the record
\* still holds the payload
C24_Witness ==
    /\ phase = "done"
    /\ outcome.caught
    /\ Prop("data") = JArr(<<JNull>>)
    /\ Prop("old_data") # Undefined
    /\ outcome.value.rawData = payload

(***************************************************************************)
(* Further properties of the message loop, health and shutdown.            *)
(***************************************************************************)
\* processMessage caught an error for the i-th delivered message: the parse
\* failure at line 81 or, in the outer handler at line 108, anything else
CaughtByProcessMessage(i) ==
    \E k \in 1..Len(log[i]) : log[i][k] \in {ErrorParse, ErrorProcessing}

\* the raw text of the i-th delivered message was logged
RawLogged(i) ==
    \E k \in 1..Len(log[i]) : log[i][k] = InfoRaw(delivered[i].value[1])

\* C25: whenever processMessage catches an error for a message, a parse
\* failure or an error reaching its outer handler, the lines logged for
\* that message include the message's raw payload.
C25_ErrorsLoggedWithPayload ==
    \A i \in 1..Len(delivered) : CaughtByProcessMessage(i) => RawLogged(i)

\* C26: GET /health can be answered in every state of the running process,
\* whatever startConsumer, the message loop or a signal handler is waiting
\* for, and answering it changes nothing but the answer given: isRunning,
\* the connection, the startup position and the messages stay as they are,
\* and the answer is "healthy" exactly when isRunning is true.
C26_HealthReadOnly ==
    /\ [](~exited => ENABLED Health)
    /\ [][lastHealth' # lastHealth =>
            /\ lastHealth' = HealthStatus
            /\ UNCHANGED <<isRunning, conn, pc, attempt, adminOpen, stopping,
                           delivered, log, resolved, exited>>]_vars

\* /health answered "healthy" while consumer.run() was still awaited
C26_Witness ==
    /\ lastHealth = "healthy"
    /\ pc = "run"
    /\ isRunning
    /\ conn = "subscribed"
    /\ ~exited

\* the process was ended by a signal handler: by its process.exit(0) or by
\* the rejection of its consumer.disconnect()
SignalExit == exited /\ exitBy \in {"signal", "unhandledRejection"}

\* C27: a signal never ends the process while a message is inside
\* processMessage: when a signal handler ends the process every message
\* handed to processMessage has been emitted or skipped, and the step that
\* ends the process is not one that processes a message.
C27_NoExitMidMessage ==
    /\ [](SignalExit =>
            /\ Len(log) = Len(delivered)
            /\ \A i \in 1..Len(delivered) : Handled(i))
    /\ [][(~exited /\ exited') => UNCHANGED <<delivered, log, resolved>>]_vars

\* two messages were processed, then a signal ended the process
C27_Witness ==
    /\ SignalExit
    /\ signals > 0
    /\ Len(delivered) = 2
    /\ Emitted(1)
    /\ Handled(2)

(***************************************************************************)
(* SpecBoot: startServer() of the API server (api/src/server.js).  The     *)
(* database outlives the server, so a start may find any of the tables and *)
(* the default user already there.                                         *)
(***************************************************************************)
\* the statements of initSchema, in order
SchemaOrder ==
    <<"createDatabase", "useDatabase", "users", "user_tokens", "user_activities">>

SchemaStatements == {SchemaOrder[i] : i \in DOMAIN SchemaOrder}

\* what follows a statement of initSchema that succeeded
AfterStatement(statement) ==
    LET i == CHOOSE k \in DOMAIN SchemaOrder : SchemaOrder[k] = statement
    IN IF i < Len(SchemaOrder) THEN SchemaOrder[i + 1] ELSE "selectUser"

\* user_tokens and user_activities reference users; the user row needs users
DatabaseStates ==
    {d \in [tables : SUBSET Tables, user : BOOLEAN] :
        /\ d.tables # {} => "users" \in d.tables
        /\ d.user => "users" \in d.tables}

BootFrame == UNCHANGED <<procVars, normVars, now, user_tokens, requests, revoked>>

\* mysql.createConnection resolves: initSchema sends its first statement
CreateConnectionOk ==
    /\ boot.pc = "createConnection"
    /\ boot' = [boot EXCEPT !.connected = TRUE, !.pc = SchemaOrder[1]]
    /\ BootFrame

\* mysql.createConnection rejects: initDatabase logs and calls process.exit(1)
CreateConnectionFail ==
    /\ boot.pc = "createConnection"
    /\ boot' = [boot EXCEPT !.pc = "exited", !.exitCode = 1]
    /\ BootFrame

\* a statement of initSchema succeeds
SchemaStatementOk ==
    /\ boot.pc \in SchemaStatements
    /\ boot' = [boot EXCEPT
                    !.tables = IF boot.pc \in Tables THEN @ \cup {boot.pc} ELSE @,
                    !.pc = AfterStatement(boot.pc)]
    /\ BootFrame

\* a statement of initSchema fails: its catch logs the error and initSchema
\* returns normally, so initDatabase goes on to createDefaultUser
SchemaStatementFail ==
    /\ boot.pc \in SchemaStatements
    /\ boot' = [boot EXCEPT !.errors = @ \cup {"schema"}, !.pc = "selectUser"]
    /\ BootFrame

\* the SELECT of createDefaultUser succeeds
SelectDefaultUserOk ==
    /\ boot.pc = "selectUser"
    /\ "users" \in boot.tables
    /\ boot' = [boot EXCEPT !.pc = IF boot.user THEN "listen" ELSE "insertUser"]
    /\ BootFrame

\* the SELECT fails: the catch logs the error and createDefaultUser returns
SelectDefaultUserFail ==
    /\ boot.pc = "selectUser"
    /\ boot' = [boot EXCEPT !.errors = @ \cup {"user"}, !.pc = "listen"]
    /\ BootFrame

\* bcrypt.hash and the INSERT succeed
InsertDefaultUserOk ==
    /\ boot.pc = "insertUser"
    /\ boot' = [boot EXCEPT !.user = TRUE, !.pc = "listen"]
    /\ BootFrame

\* bcrypt.hash or the INSERT fails: logged, createDefaultUser returns
InsertDefaultUserFail ==
    /\ boot.pc = "insertUser"
    /\ boot' = [boot EXCEPT !.errors = @ \cup {"user"}, !.pc = "listen"]
    /\ BootFrame

\* initDatabase has returned: app.listen(port)
Listen ==
    /\ boot.pc = "listen"
    /\ boot' = [boot EXCEPT !.listening = TRUE, !.pc = "listening"]
    /\ BootFrame

NextBoot ==
    \/ CreateConnectionOk \/ CreateConnectionFail
    \/ SchemaStatementOk \/ SchemaStatementFail
    \/ SelectDefaultUserOk \/ SelectDefaultUserFail
    \/ InsertDefaultUserOk \/ InsertDefaultUserFail
    \/ Listen

InitBoot ==
    /\ ProcInit
    /\ NormIdle
    /\ now = 0
    /\ user_tokens = {}
    /\ requests = <<>>
    /\ revoked = {}
    /\ boot \in {BootStart(d.tables, d.user) : d \in DatabaseStates}

SpecBoot == InitBoot /\ [][NextBoot]_vars

\* C28: the API server listens only when database initialisation has fully
\* succeeded: the connection is open, the three tables exist, the default
\* user exists, and no step of the initialisation has failed.
C28_ListenAfterDatabaseInit ==
    boot.listening =>
        /\ boot.connected
        /\ boot.tables = Tables
        /\ boot.user
        /\ boot.errors = {}

(***************************************************************************)
(* Further properties of shutdown (Spec).                                  *)
(***************************************************************************)
\* C29: whatever signals arrive and however their handlers interleave,
\* consumer.disconnect is called at most once.
C29_DisconnectAtMostOnce == disconnectCalls <= 1

\* a consumer.disconnect() awaited by stop() has rejected
DisconnectFailed == exitBy = "unhandledRejection"

\* C30: isRunning is true only while the consumer is connected and
\* subscribed: not before subscribe has succeeded, and not once a
\* disconnect has completed or failed.
C30_RunningImpliesSubscribed ==
    isRunning =>
        /\ conn \in {"subscribed", "running"}
        /\ ~DisconnectFailed

(***************************************************************************)
(* Extraction errors (SpecNorm).                                           *)
(***************************************************************************)
\* what the statement for a name field stores: the payload's value when it
\* is truthy, otherwise the default
Extracted(key, default) == IF Truthy(Prop(key)) THEN Prop(key) ELSE default

\* the first row of payload.data cannot be read for its id
FirstRowUnreadable ==
    /\ IsArray(Prop("data"))
    /\ Len(Prop("data").v) > 0
    /\ ~Readable(Prop("data").v[1])

\* C31: extraction runs in the order changeType, database, table,
\* primaryKey, changes, oldData, changeTimestamp and stops at the first
\* step that raises: a payload that cannot be read at all leaves every field
\* at its default, and a payload whose first data row cannot be read keeps
\* the extracted changeType, database and table while primaryKey stays null,
\* changes stays the empty mapping and oldData and changeTimestamp stay
\* absent, whatever old_data and ts the payload has; no other payload
\* raises.
C31_PartialExtraction ==
    phase = "done" =>
        /\ outcome.caught <=> (~Readable(payload) \/ FirstRowUnreadable)
        /\ (outcome.caught /\ ~Readable(payload)) =>
               outcome.value = DefaultResult(payload)
        /\ (outcome.caught /\ Readable(payload)) =>
               /\ outcome.value.changeType = Extracted("type", JStr("unknown"))
               /\ outcome.value.database = Extracted("database", JNull)
               /\ outcome.value.table = Extracted("table", JNull)
               /\ outcome.value.primaryKey = JNull
               /\ outcome.value.changes = JObj(<<>>)
               /\ outcome.value.oldData = Undefined
               /\ outcome.value.changeTimestamp = Undefined

\* an update on sre_test.users whose data is [null], with old_data and ts
C31_Witness ==
    /\ phase = "done"
    /\ outcome.caught
    /\ Prop("data") = JArr(<<JNull>>)
    /\ Prop("old_data") # Undefined
    /\ Prop("ts") = JNum(1700)
    /\ outcome.value.changeType = JStr("update")
    /\ outcome.value.database = JStr("sre_test")
    /\ outcome.value.table = JStr("users")
    /\ outcome.value.changes = JObj(<<>>)

(***************************************************************************)
(* Exit statuses (Spec).                                                   *)
(***************************************************************************)
\* C32: every exit caused by a startup failure has status 1; every exit a
\* signal handler performs has status 0; a signal received while isRunning
\* is false ends the process at once with status 0, whatever startConsumer
\* is waiting for, and one received while it is true leaves a handler
\* waiting for consumer.disconnect, whose success ends the process with
\* status 0.
C32_ExitStatusDiscipline ==
    /\ StartupExit => exitCode = 1
    /\ (exited /\ exitBy = "signal") => (exitCode = 0 /\ signals > 0)
    /\ conn = "disconnected" => (exited /\ exitBy = "signal" /\ exitCode = 0)
    /\ (signals > 0 /\ ~exited) => (stopping > 0 /\ everRunning)
    /\ exited => exitBy # "none"

\* a signal interrupted the retry delay after the first failed probe
C32_Witness ==
    /\ exited
    /\ exitBy = "signal"
    /\ exitCode = 0
    /\ signals = 1
    /\ pc = "delay"
    /\ failedAttempts = 1

(***************************************************************************)
(* Failed requests and the token store (SpecApi).                          *)
(***************************************************************************)
\* C33: a request answered 500 has left user_tokens as it was: a logout
\* answered 500 has deleted no row of the presented token, and a login
\* answered 500 has inserted no row.
C33_ErrorLeavesStoreUnchanged ==
    \A i \in DOMAIN requests :
        (requests[i].kind \in {"login", "logout"} /\ requests[i].status = 500)
            => ~requests[i].changed

(***************************************************************************)
(* The connectivity probe (Spec).                                          *)
(***************************************************************************)
\* startConsumer is inside testKafkaConnection
InProbe ==
    pc \in {"adminConnect", "listTopics", "adminDisconnect", "adminDisconnectCatch"}

\* C34: when testKafkaConnection has returned or thrown, no admin
\* connection is open; and once admin.listTopics has succeeded the probe
\* does not take its failure path: it returns normally whatever the closing
\* disconnect does.
C34_ProbeReleasesAndReportsTruthfully ==
    [][/\ ~InProbe' => ~adminOpen'
       /\ pc = "adminDisconnect" => pc' \in {"adminDisconnect", "connect"}]_vars

====
